---- MODULE Spec2Model ----
(***************************************************************************)
(* Model of src/01_basics/numbers.py: the script entry point and its two   *)
(* demonstration functions, demonstrate_set_operations and                 *)
(* demonstrate_number_types.  A step of the model is a statement (or a     *)
(* loop iteration) of the script; pc is the source line of the statement   *)
(* about to run.  Floating-point and complex facts are not modelled (TLC   *)
(* has no reals); the set, boolean, Decimal, Fraction and integer facts    *)
(* are.                                                                    *)
(***************************************************************************)
EXTENDS Integers, Sequences, FiniteSets, TLC

VARIABLES
    pc,            \* source line of the next statement; 0 once the process exited
    stack,         \* return addresses of the calls in progress
    env,           \* local names bound to set objects: name -> object id
    heap,          \* the set objects, by id (index)
    operations,    \* the dict of lines 76-81: <<name, op_result, method_result>>
    relationships, \* the dict of lines 136-141
    loopIdx,       \* position of the for loop in progress (0: not in a loop)
    popped,        \* the element returned by test_set.pop(), <<>> before it
    ctxPrec,       \* getcontext().prec, the thread's decimal context precision
    entryPrec,     \* ctxPrec as it was when demonstrate_number_types was called
    fracs,         \* local names bound to Fractions: name -> <<numerator, denominator>>
    out,           \* standard output: the facts printed so far, <<label, kind, value>>
    error,         \* the exception that ended the run, "none" if none
    exitStatus     \* process exit status, -1 while running

vars == <<pc, stack, env, heap, operations, relationships, loopIdx, popped,
          ctxPrec, entryPrec, fracs, out, error, exitStatus>>

(***************************************************************************)
(* Bounds of the model.                                                    *)
(***************************************************************************)
\* The precision of the thread's decimal context when the script starts is
\* 28, the decimal module's default, or a value of 1..MaxInitPrec left there
\* by whoever runs the module's functions.
MaxInitPrec == 3
\* The pure set operations are checked on all pairs of subsets of 1..MaxElem.
MaxElem == 8

Universe == 1..MaxElem

(***************************************************************************)
(* Python's set type.                                                      *)
(***************************************************************************)
Min(s) == CHOOSE x \in s : \A y \in s : x <= y

\* set.add(x)
SetAdd(s, x) == s \cup {x}

\* set.discard(x): no error when x is absent
SetDiscard(s, x) == s \ {x}

\* an update whose loop stops one element early
SetUpdateButLast(s, xs) == s \cup {xs[i] : i \in 1..(Len(xs) - 1)}

\* set(iterable) and set.update(iterable): add each element of the list in turn
RECURSIVE SetUpdate(_, _)
SetUpdate(s, xs) ==
    IF xs = <<>> THEN s ELSE SetUpdate(SetAdd(s, Head(xs)), Tail(xs))

\* iteration over a set (small integers hash to themselves)
RECURSIVE Iterate(_)
Iterate(s) ==
    IF s = {} THEN <<>> ELSE <<Min(s)>> \o Iterate(s \ {Min(s)})

\* ^ written for |
UnionAsSymmetric(a, b) == (a \ b) \cup (b \ a)

\* a | b, a.union(b): a copy of a updated with the elements of b
Union(a, b) == SetUpdate(a, Iterate(b))

\* a & b, a.intersection(b): the elements of b found in a
Intersection(a, b) == {x \in b : x \in a}

\* ^ written for -
DifferenceAsSymmetric(a, b) == (a \ b) \cup (b \ a)

\* the operands taken in the other order
DifferenceSwapped(a, b) == {x \in b : x \notin a}

\* a - b, a.difference(b): the elements of a not found in b
Difference(a, b) == {x \in a : x \notin b}

\* a ^ b, a.symmetric_difference(b): a copy of a in which each element of b
\* is removed when present and added when absent
RECURSIVE Toggle(_, _)
Toggle(s, xs) ==
    IF xs = <<>> THEN s
    ELSE Toggle(IF Head(xs) \in s THEN SetDiscard(s, Head(xs))
                                  ELSE SetAdd(s, Head(xs)), Tail(xs))

\* | written for ^
SymmetricDifferenceAsUnion(a, b) == a \cup b

SymmetricDifference(a, b) == Toggle(a, Iterate(b))

\* a <= b, a.issubset(b)
IsSubset(a, b) == \A x \in a : x \in b

\* a >= b, a.issuperset(b)
IsSuperset(a, b) == IsSubset(b, a)

\* a < b
IsProperSubset(a, b) == IsSubset(a, b) /\ Cardinality(a) # Cardinality(b)

\* a > b
IsProperSuperset(a, b) == IsProperSubset(b, a)

\* a.isdisjoint(b)
IsDisjoint(a, b) == ~ \E x \in a : x \in b

(***************************************************************************)
(* Local names and set objects.                                            *)
(***************************************************************************)
\* an id one too small: the newest object's slot is taken again
NewIdReuse(h) == IF h = <<>> THEN 1 ELSE Len(h)

\* the id of a newly created object
NewId(h) == Len(h) + 1

\* name = <a new set object holding s>
Bind(e, name, h) ==
    [n \in DOMAIN e \cup {name} |-> IF n = name THEN NewId(h) ELSE e[n]]

Alloc(h, s) == [i \in 1..NewId(h) |-> IF i = NewId(h) THEN s ELSE h[i]]

\* the set a local name refers to
Val(name) == heap[env[name]]

NoEnv == [n \in {} |-> 0]

\* print(...): one fact appended to standard output
print(o, label, kind, value) == Append(o, <<label, kind, value>>)


(***************************************************************************)
(* Control.                                                                *)
(***************************************************************************)
\* the next statement is line l
Goto(l) == pc' = l /\ UNCHANGED <<stack, error, exitStatus>>

\* an uncaught exception: traceback on standard error, exit status 1
Raise(exc) == pc' = 0 /\ stack' = <<>> /\ error' = exc /\ exitStatus' = 1

\* the two calls in the other order
MainCallsSwapped == <<"demonstrate_number_types", "demonstrate_set_operations">>

\* the functions the entry point calls, in order
MainCalls == <<"demonstrate_set_operations", "demonstrate_number_types">>

\* first statement of a function's body
Entry(f) == IF f = "demonstrate_set_operations" THEN 38 ELSE 218

setLocals == <<env, heap, operations, relationships, loopIdx, popped>>
numLocals == <<ctxPrec, entryPrec, fracs>>

Init ==
    /\ pc = 390
    /\ stack = <<>>
    /\ env = NoEnv
    /\ heap = <<>>
    /\ operations = <<>>
    /\ relationships = <<>>
    /\ loopIdx = 0
    /\ popped = <<>>
    /\ ctxPrec \in (1..MaxInitPrec) \cup {28}
    /\ entryPrec = 0
    /\ fracs = NoEnv
    /\ out = <<>>
    /\ error = "none"
    /\ exitStatus = -1

(***************************************************************************)
(* The entry point, lines 389-391.                                         *)
(***************************************************************************)
CallFirst ==
    /\ pc = 390
    /\ pc' = Entry(MainCalls[1])
    /\ stack' = <<391>> \o stack
    /\ entryPrec' = IF MainCalls[1] = "demonstrate_number_types" THEN ctxPrec ELSE entryPrec
    /\ UNCHANGED <<setLocals, ctxPrec, fracs, out, error, exitStatus>>

CallSecond ==
    /\ pc = 391
    /\ pc' = Entry(MainCalls[2])
    /\ stack' = <<392>> \o stack
    /\ entryPrec' = IF MainCalls[2] = "demonstrate_number_types" THEN ctxPrec ELSE entryPrec
    /\ UNCHANGED <<setLocals, ctxPrec, fracs, out, error, exitStatus>>

\* the end of the module is reached: the interpreter exits with status 0
Exit ==
    /\ pc = 392
    /\ pc' = 0
    /\ exitStatus' = 0
    /\ UNCHANGED <<stack, setLocals, numLocals, out, error>>

(***************************************************************************)
(* demonstrate_set_operations, lines 18-178.                               *)
(***************************************************************************)
\* lines 38-41
SetHeader ==
    /\ pc = 38
    /\ out' = print(out, "SET OPERATIONS IN PYTHON", "text", "")
    /\ Goto(45)
    /\ UNCHANGED <<setLocals, numLocals>>

\* lines 45-47: set1, set2, set3
CreateSets ==
    /\ pc = 45
    /\ LET e1 == Bind(env, "set1", heap)
           h1 == Alloc(heap, {1, 2, 3, 4, 5})
           e2 == Bind(e1, "set2", h1)
           h2 == Alloc(h1, {4, 5, 6, 7, 8})
           e3 == Bind(e2, "set3", h2)
           h3 == Alloc(h2, {1, 2, 3})
       IN  env' = e3 /\ heap' = h3
    /\ Goto(52)
    /\ UNCHANGED <<operations, relationships, loopIdx, popped, numLocals, out>>

\* lines 52-53: for i, s in enumerate([set1, set2, set3], 1)
PrintSets ==
    /\ pc = 52
    /\ LET i == loopIdx + 1
           name == <<"set1", "set2", "set3">>[i]
       IN  /\ out' = print(out, name, "set", Val(name))
           /\ IF i = 3 THEN loopIdx' = 0 /\ Goto(58)
                       ELSE loopIdx' = i /\ Goto(52)
    /\ UNCHANGED <<env, heap, operations, relationships, popped, numLocals>>

\* lines 58-59: set_from_list = set(list_with_duplicates)
CreateSetFromList ==
    /\ pc = 58
    /\ LET list_with_duplicates == <<1, 2, 2, 3, 4, 4, 5>>
       IN  /\ env' = Bind(env, "set_from_list", heap)
           /\ heap' = Alloc(heap, SetUpdate({}, list_with_duplicates))
    /\ Goto(60)
    /\ UNCHANGED <<operations, relationships, loopIdx, popped, numLocals, out>>

\* lines 60-61
PrintSetFromList ==
    /\ pc = 60
    /\ out' = print(out, "set_from_list", "set", Val("set_from_list"))
    /\ Goto(65)
    /\ UNCHANGED <<setLocals, numLocals>>

\* lines 65-67: empty_set = set()
CreateEmptySet ==
    /\ pc = 65
    /\ env' = Bind(env, "empty_set", heap)
    /\ heap' = Alloc(heap, {})
    /\ out' = print(out, "Empty set", "set", {})
    /\ Goto(70)
    /\ UNCHANGED <<operations, relationships, loopIdx, popped, numLocals>>

\* lines 70-72
PrintOperands ==
    /\ pc = 70
    /\ out' = print(print(out, "set1 (operations)", "set", Val("set1")),
                    "set2 (operations)", "set", Val("set2"))
    /\ Goto(76)
    /\ UNCHANGED <<setLocals, numLocals>>

\* lines 76-81: each operation by operator and by method
ComputeOperations ==
    /\ pc = 76
    /\ LET set1 == Val("set1")
           set2 == Val("set2")
       IN  operations' =
             << <<"Union", Union(set1, set2), Union(set1, set2)>>,
                <<"Intersection", Intersection(set1, set2), Intersection(set1, set2)>>,
                <<"Difference", Difference(set1, set2), Difference(set1, set2)>>,
                <<"Symmetric Difference", SymmetricDifference(set1, set2),
                                          SymmetricDifference(set1, set2)>> >>
    /\ Goto(85)
    /\ UNCHANGED <<env, heap, relationships, loopIdx, popped, numLocals, out>>

\* lines 85-89: for op_name, (op_result, method_result, ...) in operations.items()
PrintOperation ==
    /\ pc = 85
    /\ LET i == loopIdx + 1
           op_name == operations[i][1]
           op_result == operations[i][2]
           method_result == operations[i][3]
       IN  /\ out' = print(print(print(out,
                        op_name, "set", op_result),
                        op_name \o " method", "set", method_result),
                        op_name \o " identical", "bool", op_result = method_result)
           /\ IF i = Len(operations) THEN loopIdx' = 0 /\ Goto(92)
                                     ELSE loopIdx' = i /\ Goto(85)
    /\ UNCHANGED <<env, heap, operations, relationships, popped, numLocals>>

\* the object a local name refers to now holds s
Store(h, id, s) == [h EXCEPT ![id] = s]

\* lines 92-95: test_set = {1, 2, 3}
CreateTestSet ==
    /\ pc = 92
    /\ env' = Bind(env, "test_set", heap)
    /\ heap' = Alloc(heap, {1, 2, 3})
    /\ Goto(96)
    /\ UNCHANGED <<operations, relationships, loopIdx, popped, numLocals, out>>

\* the print that follows each step of the method sequence, and the statement after it
TestSetPrints ==
    << <<96, "Original set", 100>>,       <<101, "After add(4)", 105>>,
       <<106, "After update([5, 6, 7])", 110>>, <<111, "After remove(7)", 115>>,
       <<116, "After discard(10)", 121>>, <<123, "After pop()", 127>>,
       <<128, "After clear()", 131>> >>

\* lines 96, 101, 106, 111, 116, 123, 128
PrintTestSet ==
    \E i \in DOMAIN TestSetPrints :
        /\ pc = TestSetPrints[i][1]
        /\ out' = print(out, TestSetPrints[i][2], "set", Val("test_set"))
        /\ Goto(TestSetPrints[i][3])
        /\ UNCHANGED <<setLocals, numLocals>>

\* line 100: test_set.add(4)
Add ==
    /\ pc = 100
    /\ heap' = Store(heap, env["test_set"], SetAdd(Val("test_set"), 4))
    /\ Goto(101)
    /\ UNCHANGED <<env, operations, relationships, loopIdx, popped, numLocals, out>>

\* line 105: test_set.update([5, 6, 7])
Update ==
    /\ pc = 105
    /\ heap' = Store(heap, env["test_set"], SetUpdate(Val("test_set"), <<5, 6, 7>>))
    /\ Goto(106)
    /\ UNCHANGED <<env, operations, relationships, loopIdx, popped, numLocals, out>>

\* line 110: test_set.remove(7), KeyError when 7 is absent
Remove ==
    /\ pc = 110
    /\ IF 7 \in Val("test_set")
       THEN /\ heap' = Store(heap, env["test_set"], SetDiscard(Val("test_set"), 7))
            /\ Goto(111)
       ELSE /\ Raise("KeyError")
            /\ UNCHANGED heap
    /\ UNCHANGED <<env, operations, relationships, loopIdx, popped, numLocals, out>>

\* line 115: test_set.discard(10)
Discard ==
    /\ pc = 115
    /\ heap' = Store(heap, env["test_set"], SetDiscard(Val("test_set"), 10))
    /\ Goto(116)
    /\ UNCHANGED <<env, operations, relationships, loopIdx, popped, numLocals, out>>

\* a pop that returns an element and leaves it in the set
SetPopKeeps(s, x) == s

\* set.pop() of s choosing x: what is left of s
SetPop(s, x) == s \ {x}

\* lines 121-122: popped = test_set.pop(), an arbitrary element; KeyError when empty
Pop ==
    /\ pc = 121
    /\ IF Val("test_set") # {}
       THEN \E x \in Val("test_set") :
              /\ popped' = x
              /\ heap' = Store(heap, env["test_set"], SetPop(Val("test_set"), x))
              /\ out' = print(out, "Popped element", "int", x)
              /\ Goto(123)
       ELSE /\ Raise("KeyError")
            /\ UNCHANGED <<heap, popped, out>>
    /\ UNCHANGED <<env, operations, relationships, loopIdx, numLocals>>

\* line 127: test_set.clear()
Clear ==
    /\ pc = 127
    /\ heap' = Store(heap, env["test_set"], {})
    /\ Goto(128)
    /\ UNCHANGED <<env, operations, relationships, loopIdx, popped, numLocals, out>>

\* lines 131-133
PrintRelated ==
    /\ pc = 131
    /\ out' = print(print(out, "set1 (relationships)", "set", Val("set1")),
                    "set3 (relationships)", "set", Val("set3"))
    /\ Goto(136)
    /\ UNCHANGED <<setLocals, numLocals>>

\* lines 136-141: <<question, operator_result, method_result>>; a method_result
\* is <<value>>, or <<>> for None
ComputeRelationships ==
    /\ pc = 136
    /\ LET set1 == Val("set1")
           set3 == Val("set3")
       IN  relationships' =
             << <<"Is set3 a subset of set1?", IsSubset(set3, set1), <<IsSubset(set3, set1)>> >>,
                <<"Is set1 a superset of set3?", IsSuperset(set1, set3), <<IsSuperset(set1, set3)>> >>,
                <<"Is set3 a proper subset of set1?", IsProperSubset(set3, set1), <<>> >>,
                <<"Is set1 a proper superset of set3?", IsProperSuperset(set1, set3), <<>> >> >>
    /\ Goto(145)
    /\ UNCHANGED <<env, heap, operations, loopIdx, popped, numLocals, out>>

\* lines 145-149: for question, (operator_result, method_result, ...) in relationships.items()
PrintRelationship ==
    /\ pc = 145
    /\ LET i == loopIdx + 1
           question == relationships[i][1]
           operator_result == relationships[i][2]
           method_result == relationships[i][3]
           o1 == print(out, question, "bool", operator_result)
           o2 == IF method_result # <<>>
                 THEN print(o1, question \o " method", "bool", method_result[1])
                 ELSE o1
       IN  /\ out' = print(o2, question \o " operator", "bool", operator_result)
           /\ IF i = Len(relationships) THEN loopIdx' = 0 /\ Goto(153)
                                        ELSE loopIdx' = i /\ Goto(145)
    /\ UNCHANGED <<env, heap, operations, relationships, popped, numLocals>>

\* line 153
PrintDisjoint ==
    /\ pc = 153
    /\ out' = print(out, "Are set1 and set3 disjoint?", "bool",
                    IsDisjoint(Val("set1"), Val("set3")))
    /\ Goto(155)
    /\ UNCHANGED <<setLocals, numLocals>>

\* lines 155-156: disjoint_set = {10, 11, 12}
CreateDisjointSet ==
    /\ pc = 155
    /\ env' = Bind(env, "disjoint_set", heap)
    /\ heap' = Alloc(heap, {10, 11, 12})
    /\ out' = print(out, "Are set1 and disjoint_set disjoint?", "bool",
                    IsDisjoint(Val("set1"), {10, 11, 12}))
    /\ Goto(162)
    /\ UNCHANGED <<operations, relationships, loopIdx, popped, numLocals>>

\* lines 159-165: frozen = frozenset([1, 2, 3, 4, 5])
CreateFrozen ==
    /\ pc = 162
    /\ env' = Bind(env, "frozen", heap)
    /\ heap' = Alloc(heap, SetUpdate({}, <<1, 2, 3, 4, 5>>))
    /\ out' = print(out, "Frozen set", "set", SetUpdate({}, <<1, 2, 3, 4, 5>>))
    /\ Goto(168)
    /\ UNCHANGED <<operations, relationships, loopIdx, popped, numLocals>>

\* lines 168-169: mapping = {frozen: ...}; mapping[frozen], KeyError when absent
LookupFrozen ==
    /\ pc = 168
    /\ LET mapping == {Val("frozen")}
       IN  IF Val("frozen") \in mapping
           THEN /\ out' = print(out, "Using frozen set as dictionary key", "text", "")
                /\ Goto(172)
           ELSE /\ Raise("KeyError")
                /\ UNCHANGED out
    /\ UNCHANGED <<setLocals, numLocals>>

\* lines 172-178, then the function returns and its locals are dropped
ReturnFromSets ==
    /\ pc = 172
    /\ out' = print(out, "Set Performance Characteristics", "text", "")
    /\ pc' = Head(stack)
    /\ stack' = Tail(stack)
    /\ env' = NoEnv
    /\ heap' = <<>>
    /\ operations' = <<>>
    /\ relationships' = <<>>
    /\ popped' = <<>>
    /\ UNCHANGED <<loopIdx, numLocals, error, exitStatus>>

(***************************************************************************)
(* Numbers.  A Decimal is [digits, exp]: the coefficient's decimal digits, *)
(* most significant first, and the exponent (all the script's Decimals are *)
(* positive).  A Fraction is <<numerator, denominator>> in lowest terms.   *)
(***************************************************************************)
RECURSIVE FromRadix(_, _)
\* an integer literal's digits read in a base: 0b1010, 0o52, 0x2A
FromRadix(ds, base) ==
    IF ds = <<>> THEN 0
    ELSE FromRadix(SubSeq(ds, 1, Len(ds) - 1), base) * base + ds[Len(ds)]

\* int(True), int(False): bool is a subclass of int
BoolInt(b) == IF b THEN 1 ELSE 0

Zeros(n) == [i \in 1..n |-> 0]

RECURSIVE StripLeading(_)
StripLeading(ds) ==
    IF Len(ds) > 1 /\ Head(ds) = 0 THEN StripLeading(Tail(ds)) ELSE ds

RECURSIVE StripTrailing(_)
\* a Decimal with the trailing zeros of its coefficient moved into its exponent
StripTrailing(x) ==
    IF Len(x.digits) > 1 /\ x.digits[Len(x.digits)] = 0
    THEN StripTrailing([digits |-> SubSeq(x.digits, 1, Len(x.digits) - 1), exp |-> x.exp + 1])
    ELSE x

RECURSIVE Reduce(_, _)
\* an exact quotient brought as close to its ideal exponent as its zeros allow
Reduce(x, ideal) ==
    IF x.exp < ideal /\ x.digits[Len(x.digits)] = 0 /\ Len(x.digits) > 1
    THEN Reduce([digits |-> SubSeq(x.digits, 1, Len(x.digits) - 1), exp |-> x.exp + 1], ideal)
    ELSE x

RECURSIVE LongDiv(_, _, _, _)
\* divmod of a digit string by d, a digit at a time: <<quotient digits, remainder>>
LongDiv(ds, d, rem, acc) ==
    IF ds = <<>> THEN <<StripLeading(acc), rem>>
    ELSE LET cur == rem * 10 + Head(ds)
         IN  LongDiv(Tail(ds), d, cur % d, Append(acc, cur \div d))

RECURSIVE Increment(_)
\* a coefficient plus one, carrying
Increment(ds) ==
    IF ds = <<>> THEN <<1>>
    ELSE IF ds[Len(ds)] < 9
         THEN [ds EXCEPT ![Len(ds)] = @ + 1]
         ELSE Append(Increment(SubSeq(ds, 1, Len(ds) - 1)), 0)

\* the Decimal rounded to the context precision, ROUND_HALF_EVEN (the default)
Fix(x, prec) ==
    IF Len(x.digits) <= prec THEN x
    ELSE LET kept == SubSeq(x.digits, 1, prec)
             dropped == SubSeq(x.digits, prec + 1, Len(x.digits))
             rest == SubSeq(dropped, 2, Len(dropped))
             up == \/ dropped[1] > 5
                   \/ dropped[1] = 5 /\ rest # Zeros(Len(rest))
                   \/ dropped[1] = 5 /\ rest = Zeros(Len(rest)) /\ kept[prec] % 2 = 1
             rounded == IF up THEN Increment(kept) ELSE kept
             e == x.exp + Len(dropped)
         IN  IF Len(rounded) > prec
             THEN [digits |-> SubSeq(rounded, 1, prec), exp |-> e + 1]
             ELSE [digits |-> rounded, exp |-> e]

\* Decimal(n) for an int 0 <= n <= 99, Decimal('0.d') for a digit d
Decimal(n) == [digits |-> IF n < 10 THEN <<n>> ELSE <<n \div 10, n % 10>>, exp |-> 0]
DecimalTenths(d) == [digits |-> <<d>>, exp |-> -1]

\* the value of a short digit string
DigitsToNat(ds) == FromRadix(ds, 10)

\* a / b in a context of precision prec (b nonzero): prec + 1 digits of
\* quotient, the last one made sticky when the division is inexact, then rounded
DecimalDiv(a, b, prec) ==
    LET shift == Len(b.digits) - Len(a.digits) + prec + 1
        qr == LongDiv(a.digits \o Zeros(shift), DigitsToNat(b.digits), 0, <<>>)
        coeff == qr[1]
        last == coeff[Len(coeff)]
        sticky == IF qr[2] # 0 /\ last % 5 = 0
                  THEN [coeff EXCEPT ![Len(coeff)] = last + 1]
                  ELSE coeff
        raw == [digits |-> sticky, exp |-> a.exp - b.exp - shift]
    IN  Fix(IF qr[2] = 0 THEN Reduce(raw, a.exp - b.exp) ELSE raw, prec)

\* a + b for Decimals of equal exponent and short coefficients
DecimalAdd(a, b, prec) ==
    LET n == DigitsToNat(a.digits) + DigitsToNat(b.digits)
    IN  Fix([digits |-> IF n < 10 THEN <<n>> ELSE <<n \div 10, n % 10>>, exp |-> a.exp], prec)

\* a == b for Decimals: equal values, whatever the exponents
DecimalEq(a, b) == StripTrailing(a) = StripTrailing(b)

RECURSIVE Gcd(_, _)
\* math.gcd
Gcd(a, b) == IF b = 0 THEN a ELSE Gcd(b, a % b)

RECURSIVE Factorial(_)
\* math.factorial
Factorial(n) == IF n = 0 THEN 1 ELSE n * Factorial(n - 1)

\* Fraction(n, d) for d nonzero: lowest terms
Fraction(n, d) == <<n \div Gcd(n, d), d \div Gcd(n, d)>>

RECURSIVE Pow10(_)
Pow10(k) == IF k = 0 THEN 1 ELSE 10 * Pow10(k - 1)

\* Fraction('i.f'): the digits before and after the point
FractionFromString(i, f) == Fraction(DigitsToNat(i \o f), Pow10(Len(f)))

\* a + b for Fractions
FractionAdd(a, b) == Fraction(a[1] * b[2] + b[1] * a[2], a[2] * b[2])

\* an assignment that does not reach the context
SetContextPrecStale(ctx, p) == ctx

\* getcontext().prec = p
SetContextPrec(ctx, p) == p

(***************************************************************************)
(* demonstrate_number_types, lines 181-386.                                *)
(***************************************************************************)
\* lines 218-220
NumHeader ==
    /\ pc = 218
    /\ out' = print(out, "NUMBER TYPES IN PYTHON", "text", "")
    /\ Goto(223)
    /\ UNCHANGED <<setLocals, numLocals>>

\* lines 223-237: the integer literals in bases 2, 8 and 16
IntegerFacts ==
    /\ pc = 223
    /\ LET regular_int == 42
           binary_int == FromRadix(<<1, 0, 1, 0>>, 2)
           octal_int == FromRadix(<<5, 2>>, 8)
           hex_int == FromRadix(<<2, 10>>, 16)
       IN  out' = print(print(print(print(out,
                    "Regular integer", "int", regular_int),
                    "Binary (0b1010)", "int", binary_int),
                    "Octal (0o52)", "int", octal_int),
                    "Hexadecimal (0x2A)", "int", hex_int)
    /\ Goto(281)
    /\ UNCHANGED <<setLocals, numLocals>>

\* lines 281-290
BooleanFacts ==
    /\ pc = 281
    /\ out' = print(print(print(print(print(out,
                "True as int", "int", BoolInt(TRUE)),
                "False as int", "int", BoolInt(FALSE)),
                "1 + True", "int", 1 + BoolInt(TRUE)),
                "True * 5", "int", BoolInt(TRUE) * 5),
                "False * 5", "int", BoolInt(FALSE) * 5)
    /\ Goto(299)
    /\ UNCHANGED <<setLocals, numLocals>>

\* the assignments to getcontext().prec: <<line, precision, next statement>>
PrecAssignments == << <<299, 28, 301>>, <<308, 5, 309>>, <<311, 20, 312>> >>

\* lines 299, 308, 311: getcontext().prec = ...
SetPrec ==
    \E i \in DOMAIN PrecAssignments :
        /\ pc = PrecAssignments[i][1]
        /\ ctxPrec' = SetContextPrec(ctxPrec, PrecAssignments[i][2])
        /\ Goto(PrecAssignments[i][3])
        /\ UNCHANGED <<setLocals, entryPrec, fracs, out>>

\* lines 301-304: decimal_num = Decimal('0.1') + Decimal('0.2')
DecimalSum ==
    /\ pc = 301
    /\ LET decimal_num == DecimalAdd(DecimalTenths(1), DecimalTenths(2), ctxPrec)
       IN  out' = print(print(out,
                    "Using Decimal for 0.1 + 0.2", "dec", decimal_num),
                    "Is exactly 0.3?", "bool", DecimalEq(decimal_num, DecimalTenths(3)))
    /\ Goto(308)
    /\ UNCHANGED <<setLocals, numLocals>>

\* the divisions Decimal(1) / Decimal(7): <<line, label, next statement>>
Divisions == << <<309, "With precision=5", 311>>, <<312, "With precision=20", 315>> >>

\* lines 309, 312: DivisionByZero when the divisor is zero
Divide ==
    \E i \in DOMAIN Divisions :
        /\ pc = Divisions[i][1]
        /\ IF Decimal(7).digits # <<0>>
           THEN /\ out' = print(out, Divisions[i][2], "dec",
                                DecimalDiv(Decimal(1), Decimal(7), ctxPrec))
                /\ Goto(Divisions[i][3])
           ELSE /\ Raise("DivisionByZero")
                /\ UNCHANGED out
        /\ UNCHANGED <<setLocals, numLocals>>

\* lines 315-325: frac1 = Fraction(1, 3); frac2 = Fraction('0.25');
\* ZeroDivisionError for a zero denominator
CreateFractions ==
    /\ pc = 315
    /\ IF 3 # 0
       THEN LET frac1 == Fraction(1, 3)
                frac2 == FractionFromString(<<0>>, <<2, 5>>)
            IN  /\ fracs' = [n \in {"frac1", "frac2"} |-> IF n = "frac1" THEN frac1 ELSE frac2]
                /\ out' = print(print(out, "Fraction 1/3", "frac", frac1),
                                "Fraction from '0.25'", "frac", frac2)
                /\ Goto(326)
       ELSE /\ Raise("ZeroDivisionError")
            /\ UNCHANGED <<fracs, out>>
    /\ UNCHANGED <<setLocals, ctxPrec, entryPrec>>

\* line 326: frac1 + Fraction(1, 4)
AddFractions ==
    /\ pc = 326
    /\ IF 4 # 0
       THEN /\ out' = print(out, "Fraction 1/3 + 1/4", "frac",
                            FractionAdd(fracs["frac1"], Fraction(1, 4)))
            /\ Goto(336)
       ELSE /\ Raise("ZeroDivisionError")
            /\ UNCHANGED out
    /\ UNCHANGED <<setLocals, numLocals>>

\* lines 336-345: num = 42 converted to bool, Decimal and Fraction
Conversions ==
    /\ pc = 336
    /\ LET num == 42
       IN  out' = print(print(print(out,
                    "int to bool", "bool", num # 0),
                    "int to Decimal", "dec", Decimal(num)),
                    "int to Fraction", "frac", Fraction(num, 1))
    /\ Goto(355)
    /\ UNCHANGED <<setLocals, numLocals>>

\* lines 355-366: math.factorial(5), math.gcd(48, 18)
MathFacts ==
    /\ pc = 355
    /\ out' = print(print(out, "Factorial of 5", "int", Factorial(5)),
                    "GCD of 48 and 18", "int", Gcd(48, 18))
    /\ Goto(369)
    /\ UNCHANGED <<setLocals, numLocals>>

\* lines 369-373: True + 2
Coercion ==
    /\ pc = 369
    /\ out' = print(out, "True + 2", "int", BoolInt(TRUE) + 2)
    /\ Goto(378)
    /\ UNCHANGED <<setLocals, numLocals>>

\* lines 378-386, then the function returns and its locals are dropped; the
\* decimal context belongs to the thread and stays as it is
ReturnFromNumbers ==
    /\ pc = 378
    /\ out' = print(out, "Numeric Limits and Special Values", "text", "")
    /\ pc' = Head(stack)
    /\ stack' = Tail(stack)
    /\ fracs' = NoEnv
    /\ UNCHANGED <<setLocals, ctxPrec, entryPrec, error, exitStatus>>

Next ==
    \/ CallFirst \/ CallSecond \/ Exit
    \/ SetHeader \/ CreateSets \/ PrintSets \/ CreateSetFromList \/ PrintSetFromList
    \/ CreateEmptySet \/ PrintOperands \/ ComputeOperations \/ PrintOperation
    \/ CreateTestSet \/ PrintTestSet \/ Add \/ Update \/ Remove \/ Discard \/ Pop \/ Clear
    \/ PrintRelated \/ ComputeRelationships \/ PrintRelationship \/ PrintDisjoint
    \/ CreateDisjointSet \/ CreateFrozen \/ LookupFrozen \/ ReturnFromSets
    \/ NumHeader \/ IntegerFacts \/ BooleanFacts \/ SetPrec \/ DecimalSum \/ Divide
    \/ CreateFractions \/ AddFractions \/ Conversions \/ MathFacts \/ Coercion
    \/ ReturnFromNumbers

\* the script, run by the entry point
Spec == Init /\ [][Next]_vars

\* the interpreter runs the next statement as long as there is one
FairSpec == Spec /\ WF_vars(Next)

(***************************************************************************)
(* The set operations of lines 76-89 on arbitrary operands: set1 and set2  *)
(* range over the subsets of Universe, the script computes and prints its  *)
(* four operations on them, and the two operations that are not symmetric  *)
(* in their written form are then applied to the operands swapped.         *)
(***************************************************************************)
AlgebraInit ==
    /\ pc = 76
    /\ stack = <<>>
    /\ \E A \in SUBSET Universe, B \in SUBSET Universe :
          /\ heap = Alloc(Alloc(<<>>, A), B)
          /\ env = Bind(Bind(NoEnv, "set1", <<>>), "set2", Alloc(<<>>, A))
    /\ operations = <<>>
    /\ relationships = <<>>
    /\ loopIdx = 0
    /\ popped = <<>>
    /\ ctxPrec = 28
    /\ entryPrec = 0
    /\ fracs = NoEnv
    /\ out = <<>>
    /\ error = "none"
    /\ exitStatus = -1

\* set2 & set1 and set2 - set1
ApplySwapped ==
    /\ pc = 92
    /\ out' = print(print(out,
                "Intersection swapped", "set", Intersection(Val("set2"), Val("set1"))),
                "Difference swapped", "set", Difference(Val("set2"), Val("set1")))
    /\ pc' = 0
    /\ UNCHANGED <<stack, setLocals, numLocals, error, exitStatus>>

AlgebraNext == ComputeOperations \/ PrintOperation \/ ApplySwapped

AlgebraSpec == AlgebraInit /\ [][AlgebraNext]_vars

(***************************************************************************)
(* Properties.                                                             *)
(***************************************************************************)
HasFact(label) == \E i \in DOMAIN out : out[i][1] = label
FactOf(label) == out[CHOOSE i \in DOMAIN out : out[i][1] = label][3]

Example1 == {1, 2, 3, 4, 5}
Example2 == {4, 5, 6, 7, 8}
Example3 == {1, 2, 3}

\* C1: for every pair of sets set1, set2, the size of the printed union is
\* size(set1) + size(set2) - size(printed intersection)
C1_UnionSize ==
    (HasFact("Union") /\ HasFact("Intersection")) =>
        Cardinality(FactOf("Union")) =
            Cardinality(Val("set1")) + Cardinality(Val("set2"))
                - Cardinality(FactOf("Intersection"))

\* C1 witness: union and intersection of the script's own set1 and set2 are printed
C1_Witness ==
    /\ HasFact("Union") /\ HasFact("Intersection")
    /\ Val("set1") = Example1 /\ Val("set2") = Example2
    /\ Cardinality(FactOf("Union")) = 8

\* C2: for every pair of sets, the symmetric difference is the union of the
\* two differences; for the script's set1 and set2 it is {1,2,3,6,7,8}
C2_SymmetricDifference ==
    (HasFact("Symmetric Difference") /\ HasFact("Difference swapped")) =>
        /\ FactOf("Symmetric Difference") =
               Union(FactOf("Difference"), FactOf("Difference swapped"))
        /\ (Val("set1") = Example1 /\ Val("set2") = Example2) =>
               FactOf("Symmetric Difference") = {1, 2, 3, 6, 7, 8}

\* C2 witness: the script's sets, with an element in common, after all operations
C2_Witness ==
    /\ HasFact("Symmetric Difference") /\ HasFact("Difference swapped")
    /\ Val("set1") = Example1 /\ Val("set2") = Example2
    /\ FactOf("Difference swapped") = {6, 7, 8}

\* C3: intersection gives the same set with the operands swapped, and the
\* two differences of unequal non-empty sets are unequal
C3_Commutativity ==
    (HasFact("Intersection swapped") /\ HasFact("Difference swapped")) =>
        /\ FactOf("Intersection") = FactOf("Intersection swapped")
        /\ (Val("set1") # Val("set2") /\ Val("set1") # {} /\ Val("set2") # {}) =>
               FactOf("Difference") # FactOf("Difference swapped")

\* C3 witness: unequal non-empty overlapping operands, one a subset of the other
C3_Witness ==
    /\ HasFact("Intersection swapped") /\ HasFact("Difference swapped")
    /\ Val("set1") = {1, 2} /\ Val("set2") = {1, 2, 3}
    /\ FactOf("Difference") = {} /\ FactOf("Difference swapped") = {3}

\* C4: the pop step takes an element that was in test_set, removes it and
\* nothing else, and takes the size from 6 to 5, whichever element it is
C4_PopRemovesOne ==
    [][pc = 121 =>
         /\ popped' \in Val("test_set")
         /\ heap'[env'["test_set"]] = Val("test_set") \ {popped'}
         /\ \A x \in Val("test_set") \ {popped'} : x \in heap'[env'["test_set"]]
         /\ Cardinality(Val("test_set")) = 6
         /\ Cardinality(heap'[env'["test_set"]]) = 5]_vars

\* C4 witness: after a pop that chose 6
C4_Witness == pc = 123 /\ popped = 6 /\ Val("test_set") = {1, 2, 3, 4, 5}

\* C5: once demonstrate_number_types has returned, the decimal context
\* precision is what it was when the function was called
C5_ContextRestored == (pc = 392 /\ entryPrec # 0) => ctxPrec = entryPrec

\* C6 as stated: nothing is computed once the first line has been written
C6_ComputeThenPrint ==
    [][out # <<>> =>
         UNCHANGED <<env, heap, operations, relationships, popped, ctxPrec, fracs>>]_vars

SetSection ==
    <<"SET OPERATIONS IN PYTHON", "set1", "set2", "set3", "set_from_list", "Empty set",
      "set1 (operations)", "set2 (operations)",
      "Union", "Union method", "Union identical",
      "Intersection", "Intersection method", "Intersection identical",
      "Difference", "Difference method", "Difference identical",
      "Symmetric Difference", "Symmetric Difference method",
      "Symmetric Difference identical",
      "Original set", "After add(4)", "After update([5, 6, 7])", "After remove(7)",
      "After discard(10)", "Popped element", "After pop()", "After clear()",
      "set1 (relationships)", "set3 (relationships)",
      "Is set3 a subset of set1?", "Is set3 a subset of set1? method",
      "Is set3 a subset of set1? operator",
      "Is set1 a superset of set3?", "Is set1 a superset of set3? method",
      "Is set1 a superset of set3? operator",
      "Is set3 a proper subset of set1?", "Is set3 a proper subset of set1? operator",
      "Is set1 a proper superset of set3?", "Is set1 a proper superset of set3? operator",
      "Are set1 and set3 disjoint?", "Are set1 and disjoint_set disjoint?",
      "Frozen set", "Using frozen set as dictionary key",
      "Set Performance Characteristics">>

NumberSection ==
    <<"NUMBER TYPES IN PYTHON", "Regular integer", "Binary (0b1010)", "Octal (0o52)",
      "Hexadecimal (0x2A)", "True as int", "False as int", "1 + True", "True * 5",
      "False * 5", "Using Decimal for 0.1 + 0.2", "Is exactly 0.3?",
      "With precision=5", "With precision=20",
      "Fraction 1/3", "Fraction from '0.25'", "Fraction 1/3 + 1/4",
      "int to bool", "int to Decimal", "int to Fraction",
      "Factorial of 5", "GCD of 48 and 18", "True + 2",
      "Numeric Limits and Special Values">>

DeclaredOrder == SetSection \o NumberSection

\* C6 as amended: what has been printed is always an initial part of the
\* declared order, set section first, and all of it once the process has exited
C6_DeclaredOrder ==
    /\ Len(out) <= Len(DeclaredOrder)
    /\ \A i \in DOMAIN out : out[i][1] = DeclaredOrder[i]
    /\ pc = 0 => (Len(out) = Len(DeclaredOrder) /\ exitStatus = 0)

\* C6 witness: output has begun and the operations are still to be computed
C6_Witness == pc = 76 /\ out # <<>> /\ operations = <<>> /\ HasFact("set_from_list")

\* C7 as stated: when the set section has been printed, both set1 - set2 and
\* set2 - set1 are among its facts
C7_BothDirections ==
    pc = 172 =>
        /\ \E i \in DOMAIN out :
              out[i][2] = "set" /\ out[i][3] = Difference(Val("set1"), Val("set2"))
        /\ \E i \in DOMAIN out :
              out[i][2] = "set" /\ out[i][3] = Difference(Val("set2"), Val("set1"))

\* C7 as amended: the difference is printed in one direction, set1 - set2 =
\* {1,2,3}; {6,7,8} is never printed; union, intersection, symmetric
\* difference and the subset, superset and disjoint predicates are printed
C7_OneDirection ==
    /\ \A i \in DOMAIN out : out[i][2] = "set" => out[i][3] # {6, 7, 8}
    /\ pc = 172 =>
          /\ HasFact("Difference") /\ FactOf("Difference") = {1, 2, 3}
          /\ HasFact("Union") /\ FactOf("Union") = 1..8
          /\ HasFact("Intersection") /\ FactOf("Intersection") = {4, 5}
          /\ HasFact("Symmetric Difference")
          /\ FactOf("Symmetric Difference") = {1, 2, 3, 6, 7, 8}
          /\ HasFact("Is set3 a subset of set1?") /\ FactOf("Is set3 a subset of set1?")
          /\ HasFact("Is set1 a superset of set3?") /\ FactOf("Is set1 a superset of set3?")
          /\ HasFact("Are set1 and set3 disjoint?") /\ ~ FactOf("Are set1 and set3 disjoint?")
          /\ HasFact("Are set1 and disjoint_set disjoint?")
          /\ FactOf("Are set1 and disjoint_set disjoint?")

\* C7 witness: the whole set section has been printed
C7_Witness == pc = 172 /\ HasFact("Difference") /\ HasFact("Frozen set")

\* C8: 1/7 at precision 5 differs from 1/7 at precision 20, they hold 5 and
\* 20 significant digits, the first is the second rounded to 5 digits, and
\* each division is made at the precision assigned just before it
C8_Precision ==
    /\ pc = 311 => (ctxPrec = 5 /\ Len(FactOf("With precision=5").digits) = ctxPrec)
    /\ pc = 315 =>
          LET q5 == FactOf("With precision=5")
              q20 == FactOf("With precision=20")
          IN  /\ ctxPrec = 20 /\ Len(q20.digits) = ctxPrec
              /\ q5 # q20 /\ ~ DecimalEq(q5, q20)
              /\ Len(q5.digits) = 5
              /\ Head(q5.digits) # 0 /\ Head(q20.digits) # 0
              /\ DecimalEq(Fix(q20, 5), q5)

\* C8 witness: both quotients have been printed
C8_Witness ==
    /\ pc = 315
    /\ FactOf("With precision=5") = [digits |-> <<1, 4, 2, 8, 6>>, exp |-> -5]
    /\ Len(FactOf("With precision=20").digits) = 20

C10_ExamplesUnmodified ==
    /\ [][\A n \in {"set1", "set2", "set3"} :
            (n \in DOMAIN env /\ n \in DOMAIN env') =>
                (env'[n] = env[n] /\ heap'[env'[n]] = heap[env[n]])]_vars
    /\ []("set3" \in DOMAIN env =>
            (Val("set1") = Example1 /\ Val("set2") = Example2 /\ Val("set3") = Example3))
    /\ []("test_set" \in DOMAIN env =>
            env["test_set"] \notin {env["set1"], env["set2"], env["set3"]})
    /\ [](pc = 96 => Val("test_set") = Val("set3"))
    /\ [][pc = 115 => heap' = heap]_vars
    /\ []((pc > 127 /\ pc <= 172) => Val("test_set") = {})
    /\ [](HasFact("set3 (relationships)") =>
            /\ FactOf("set1 (relationships)") = FactOf("set1")
            /\ FactOf("set3 (relationships)") = FactOf("set3"))

\* C10 witness: the relationships section is reached after the method sequence
C10_Witness ==
    /\ pc = 136 /\ HasFact("After clear()") /\ HasFact("set3 (relationships)")
    /\ Val("test_set") = {} /\ Val("set1") = Example1 /\ Val("set3") = Example3

====
